---- MODULE Spec2Model ----
(***************************************************************************)
(* A model of gotion's "insert" command (src/main.go): the validation of   *)
(* the command line, the normalisation of the database identifier, the     *)
(* reading and parsing of the data file, the schema fetch, the coercion of *)
(* every raw record by convertToNotionProperties and the submission loop.  *)
(*                                                                         *)
(* Strings that the code inspects character by character (the database     *)
(* identifier) are sequences of one-character strings; strings that it     *)
(* only compares with "" are TLA+ strings.                                 *)
(***************************************************************************)
EXTENDS Integers, Sequences, FiniteSets, TLC

(***************************************************************************)
(* Bounds of the model.                                                    *)
(***************************************************************************)
\* Longest JSON array the data file holds.
MaxRecords == 2

(***************************************************************************)
(* Strings.                                                                *)
(***************************************************************************)
HexDigits ==
    {"0", "1", "2", "3", "4", "5", "6", "7", "8", "9",
     "a", "b", "c", "d", "e", "f", "A", "B", "C", "D", "E", "F"}

\* strings.Contains(s, sub), for a non-empty sub
Contains(s, sub) ==
    \E i \in 1..(Len(s) - Len(sub) + 1) : SubSeq(s, i, i + Len(sub) - 1) = sub

\* a run of characters all in [a-fA-F0-9]
IsHexRun(s) == \A i \in 1..Len(s) : s[i] \in HexDigits

\* parts[len(parts)-1] of strings.Split(s, "/"): the text after the last "/",
\* the whole of s when it holds none
LastPart(s) ==
    LET slashes == {i \in 1..Len(s) : s[i] = "/"}
        last    == IF slashes = {} THEN 0
                   ELSE CHOOSE i \in slashes : \A j \in slashes : j <= i
    IN  SubSeq(s, last + 1, Len(s))

Dash == <<"-">>
NotionSo == <<"n", "o", "t", "i", "o", "n", ".", "s", "o">>

\* What a call that never returns leaves in place of a result: the Go runtime
\* ends the process ("fatal error: stack overflow", exit status 2).
StackOverflow == <<"fatal error: stack overflow">>

\* ^[a-fA-F0-9]{8}-[a-fA-F0-9]{4}-[a-fA-F0-9]{4}-[a-fA-F0-9]{4}-[a-fA-F0-9]{12}$
isValidUUID(uuid) ==
    /\ Len(uuid) = 36
    /\ \A i \in 1..36 :
          IF i \in {9, 14, 19, 24} THEN uuid[i] = "-" ELSE uuid[i] \in HexDigits

\* InsertDashes with the last two slices cut at 24 in place of 20
InsertDashesLateCut(input) ==
    SubSeq(input, 1, 8) \o Dash \o SubSeq(input, 9, 12) \o Dash
        \o SubSeq(input, 13, 16) \o Dash \o SubSeq(input, 17, 24) \o Dash
        \o SubSeq(input, 25, 32)

\* fmt.Sprintf("%s-%s-%s-%s-%s", input[0:8], input[8:12], input[12:16],
\*             input[16:20], input[20:32])
InsertDashes(input) ==
    SubSeq(input, 1, 8) \o Dash \o SubSeq(input, 9, 12) \o Dash
        \o SubSeq(input, 13, 16) \o Dash \o SubSeq(input, 17, 20) \o Dash
        \o SubSeq(input, 21, 32)

RECURSIVE cleanDatabaseID(_)
cleanDatabaseID(input) ==
    IF Contains(input, Dash) THEN input
    ELSE IF Len(input) = 32 /\ IsHexRun(input) THEN InsertDashes(input)
    ELSE IF Contains(input, NotionSo) /\ Len(LastPart(input)) >= 32
         THEN \* the call on an input without "/" is a call on the same input
              IF LastPart(input) = input THEN StackOverflow
              ELSE cleanDatabaseID(LastPart(input))
    ELSE input

(***************************************************************************)
(* JSON values, column types and Notion properties.                        *)
(***************************************************************************)
JString(s) == [kind |-> "string", str |-> s]
JNumber(n) == [kind |-> "number", num |-> n]
JBool(b) == [kind |-> "bool", bool |-> b]
JNull == [kind |-> "null"]
JObject(m) == [kind |-> "object", fields |-> m]

\* notionapi.PropertyConfigType: the three the switch handles and two of the
\* others
TypeTitle == "title"
TypeRichText == "rich_text"
TypeNumber == "number"
TypeSelect == "select"
TypeCheckbox == "checkbox"
ColumnTypes == {TypeTitle, TypeRichText, TypeNumber, TypeSelect, TypeCheckbox}

\* var notionProp notionapi.Property: the nil interface value
NilProperty == [type |-> "nil"]
TitleProperty(s) == [type |-> TypeTitle, Title |-> <<[Text |-> [Content |-> s]]>>]
RichTextProperty(s) ==
    [type |-> TypeRichText, RichText |-> <<[Text |-> [Content |-> s]]>>]
NumberProperty(n) == [type |-> TypeNumber, Number |-> n]

\* make(notionapi.Properties): the empty map
EmptyMap == [n \in {} |-> NilProperty]

\* coerceValue without its case for Number columns
coerceValueNoNumber(columnType, propValue) ==
    CASE columnType = TypeTitle ->
            IF propValue.kind = "string" THEN TitleProperty(propValue.str)
            ELSE NilProperty
      [] columnType = TypeRichText ->
            IF propValue.kind = "string" THEN RichTextProperty(propValue.str)
            ELSE NilProperty
      [] OTHER -> NilProperty

\* coerceValue with a case that passes the strings of Select columns on
coerceValueSelect(columnType, propValue) ==
    CASE columnType \in {TypeTitle, TypeSelect} ->
            IF propValue.kind = "string" THEN TitleProperty(propValue.str)
            ELSE NilProperty
      [] columnType = TypeRichText ->
            IF propValue.kind = "string" THEN RichTextProperty(propValue.str)
            ELSE NilProperty
      [] columnType = TypeNumber ->
            IF propValue.kind = "number" THEN NumberProperty(propValue.num)
            ELSE NilProperty
      [] OTHER -> NilProperty

\* coerceValue whose Title case does not assert the value's type
coerceValueAnyTitle(columnType, propValue) ==
    CASE columnType = TypeTitle ->
            IF propValue.kind = "string" THEN TitleProperty(propValue.str)
            ELSE TitleProperty("")
      [] columnType = TypeRichText ->
            IF propValue.kind = "string" THEN RichTextProperty(propValue.str)
            ELSE NilProperty
      [] columnType = TypeNumber ->
            IF propValue.kind = "number" THEN NumberProperty(propValue.num)
            ELSE NilProperty
      [] OTHER -> NilProperty

\* the switch of convertToNotionProperties on the column's type: the property
\* it leaves in notionProp (the default arm's continue leaves none either)
coerceValue(columnType, propValue) ==
    CASE columnType = TypeTitle ->
            IF propValue.kind = "string" THEN TitleProperty(propValue.str)
            ELSE NilProperty
      [] columnType = TypeRichText ->
            IF propValue.kind = "string" THEN RichTextProperty(propValue.str)
            ELSE NilProperty
      [] columnType = TypeNumber ->
            IF propValue.kind = "number" THEN NumberProperty(propValue.num)
            ELSE NilProperty
      [] OTHER -> NilProperty

\* raw["properties"].(map[string]interface{}): ok
hasProperties(raw) ==
    /\ "properties" \in DOMAIN raw
    /\ raw["properties"].kind = "object"

\* convertedProperties without the schema lookup's "continue": a string under
\* a name that is no column is passed on as rich text
convertedPropertiesNoLookup(props, schema) ==
    LET unknown == {propName \in DOMAIN props :
                       /\ propName \notin DOMAIN schema
                       /\ props[propName].kind = "string"}
        kept == {propName \in DOMAIN props :
                    /\ propName \in DOMAIN schema
                    /\ coerceValue(schema[propName], props[propName]) # NilProperty}
    IN  [propName \in kept \cup unknown |->
            IF propName \in kept
            THEN coerceValue(schema[propName], props[propName])
            ELSE RichTextProperty(props[propName].str)]

\* The loop over props writes result.Properties[propName] once per key that is
\* a schema column and whose switch arm left notionProp non-nil; the keys of a
\* map are distinct, so the order of the iteration does not show in the result.
convertedProperties(props, schema) ==
    LET kept == {propName \in DOMAIN props :
                    /\ propName \in DOMAIN schema
                    /\ coerceValue(schema[propName], props[propName]) # NilProperty}
    IN  [propName \in kept |-> coerceValue(schema[propName], props[propName])]

\* convertToNotionProperties without its else branch: a record with no field
\* map coerces to an empty page
convertToNotionPropertiesNoError(raw, schema) ==
    IF hasProperties(raw)
    THEN [pageData |-> [Properties |->
                            convertedProperties(raw["properties"].fields, schema)],
          err |-> "nil"]
    ELSE [pageData |-> [Properties |-> EmptyMap], err |-> "nil"]

convertToNotionProperties(raw, schema) ==
    IF hasProperties(raw)
    THEN [pageData |-> [Properties |->
                            convertedProperties(raw["properties"].fields, schema)],
          err |-> "nil"]
    ELSE [pageData |-> [Properties |-> EmptyMap],
          err |-> "expected key 'properties' in data, got none"]

(***************************************************************************)
(* The inputs of a run.                                                    *)
(***************************************************************************)
Hex32 ==
    <<"1", "d", "4", "a", "5", "e", "7", "f", "E", "2", "3", "1", "8", "0", "b", "9",
      "8", "d", "f", "2", "D", "D", "C", "E", "1", "e", "a", "0", "5", "d", "d", "f">>
UrlPrefix ==
    <<"h", "t", "t", "p", "s", ":", "/", "/", "w", "w", "w", ".">> \o NotionSo \o <<"/">>

\* values of --db: empty, 32 hex digits, a dashed UUID, a short word, a word
\* with a dash, a Notion URL ending in the identifier, a Notion URL ending in
\* the identifier and a query, and a host name with a query and no "/"
DbInputs ==
    {<< >>,
     Hex32,
     InsertDashes(Hex32),
     <<"m", "y", "d", "b">>,
     <<"m", "y", "-", "d", "b">>,
     UrlPrefix \o Hex32,
     UrlPrefix \o Hex32 \o <<"?", "v", "=", "1">>,
     NotionSo \o <<"?", "i", "d", "=">> \o Hex32}

DataFiles == {"", "data.json"}
ApiKeys == {"", "secret"}

\* column schemas the remote service answers with in a run
SchemaNameAge == [Name |-> TypeTitle, Age |-> TypeNumber]
SchemaWide ==
    [Name |-> TypeTitle, Age |-> TypeNumber, Notes |-> TypeRichText, Tag |-> TypeSelect]
RunSchemas == {SchemaNameAge, SchemaWide}

\* raw records of a data file
RecordNameAge == [properties |-> JObject([Name |-> JString("A"), Age |-> JNumber(25)])]
RecordUnknown == [properties |-> JObject([Unknown |-> JString("x")])]
RecordMismatch ==
    [properties |-> JObject([Name |-> JNumber(7), Age |-> JString("old"),
                             Tag |-> JString("t"), Notes |-> JString("n")])]
RecordNoProperties == [name |-> JString("x")]
RecordPropertiesNotObject == [properties |-> JString("oops")]
RunRecords ==
    {RecordNameAge, RecordUnknown, RecordMismatch, RecordNoProperties,
     RecordPropertiesNotObject}

SeqsUpTo(S, n) == UNION {[1..k -> S] : k \in 0..n}

\* what os.ReadFile returns: a document that is no JSON array or object of
\* records, one object, or an array of at most MaxRecords objects
Contents ==
    {[json |-> "invalid"]}
        \cup {[json |-> "object", value |-> r] : r \in RunRecords}
        \cup {[json |-> "array", value |-> s] : s \in SeqsUpTo(RunRecords, MaxRecords)}
NoContent == [json |-> "none"]
NoDatabase == [none |-> "none"]
NoResult == [pageData |-> [Properties |-> EmptyMap], err |-> "none"]

(***************************************************************************)
(* The state of a run of the insert command.                               *)
(***************************************************************************)
VARIABLES
    flagsSet,      \* the required flags given on the command line
    dbID,          \* --db, then the cleaned identifier
    dataFile,      \* --data
    apiKeyFlag,    \* --api-key
    debugMode,     \* --debug
    apiKey,        \* the credential in use
    content,       \* the data file as read
    rawData,       \* the parsed records
    database,      \* the schema fetched at line 209
    converted,     \* pageData, err of the last convertToNotionProperties call
    pagesData,     \* the records that coerced without error
    i,             \* the index of the running loop (from 1)
    successCount,
    calls,         \* the requests the remote service has received, in order
    out,           \* the lines printed that the properties read
    pc,            \* the position in insertCmd.Run
    exitCode       \* the exit status once pc = "exited", -1 before

vars ==
    <<flagsSet, dbID, dataFile, apiKeyFlag, debugMode, apiKey, content, rawData,
      database, converted, pagesData, i, successCount, calls, out, pc, exitCode>>

cmdLine == <<flagsSet, dbID, dataFile, apiKeyFlag, debugMode>>

\* os.Exit(code), or main returning (code 0)
Exit(code) ==
    /\ pc' = "exited"
    /\ exitCode' = code

DatabaseGet(ok) == [op |-> "Database.Get", ok |-> ok]
PageCreate(properties, ok) == [op |-> "Page.Create", Properties |-> properties, ok |-> ok]

Init ==
    /\ flagsSet \in SUBSET {"db", "data"}
    /\ dbID \in (IF "db" \in flagsSet THEN DbInputs ELSE {<< >>})
    /\ dataFile \in (IF "data" \in flagsSet THEN DataFiles ELSE {""})
    /\ apiKeyFlag \in ApiKeys
    /\ debugMode \in BOOLEAN
    /\ apiKey = ""
    /\ content = NoContent
    /\ rawData = << >>
    /\ database = NoDatabase
    /\ converted = NoResult
    /\ pagesData = << >>
    /\ i = 0
    /\ successCount = 0
    /\ calls = << >>
    /\ out = << >>
    /\ pc = "execute"
    /\ exitCode = -1

(***************************************************************************)
(* The steps of a run.                                                     *)
(***************************************************************************)
\* rootCmd.Execute(): a flag marked required that the command line does not
\* give makes cobra return an error without calling Run; main drops the error
\* Execute returns and returns itself, so the process ends with status 0.
Execute ==
    /\ pc = "execute"
    /\ IF {"db", "data"} \subseteq flagsSet
       THEN /\ pc' = "flags"
            /\ UNCHANGED exitCode
       ELSE Exit(0)
    /\ UNCHANGED <<cmdLine, apiKey, content, rawData, database, converted,
                   pagesData, i, successCount, calls, out>>

\* if dbID == "" || dataFile == "" { ...; os.Exit(1) }
CheckFlags ==
    /\ pc = "flags"
    /\ IF dbID = << >> \/ dataFile = ""
       THEN Exit(1)
       ELSE /\ pc' = "uuid"
            /\ UNCHANGED exitCode
    /\ UNCHANGED <<cmdLine, apiKey, content, rawData, database, converted,
                   pagesData, i, successCount, calls, out>>

\* CheckUUID without the os.Exit(1) of a failed isValidUUID
CheckUUIDNoExit ==
    /\ pc = "uuid"
    /\ LET cleaned == cleanDatabaseID(dbID)
       IN  IF cleaned = StackOverflow
           THEN /\ Exit(2)
                /\ UNCHANGED dbID
           ELSE /\ dbID' = cleaned
                /\ pc' = "apikey"
                /\ UNCHANGED exitCode
    /\ UNCHANGED <<flagsSet, dataFile, apiKeyFlag, debugMode, apiKey, content,
                   rawData, database, converted, pagesData, i, successCount,
                   calls, out>>

\* dbID = cleanDatabaseID(dbID); if !isValidUUID(dbID) { ...; os.Exit(1) }
CheckUUID ==
    /\ pc = "uuid"
    /\ LET cleaned == cleanDatabaseID(dbID)
       IN  IF cleaned = StackOverflow
           THEN /\ Exit(2)
                /\ UNCHANGED dbID
           ELSE /\ dbID' = cleaned
                /\ IF isValidUUID(cleaned)
                   THEN /\ pc' = "apikey"
                        /\ UNCHANGED exitCode
                   ELSE Exit(1)
    /\ UNCHANGED <<flagsSet, dataFile, apiKeyFlag, debugMode, apiKey, content,
                   rawData, database, converted, pagesData, i, successCount,
                   calls, out>>

\* apiKey := apiKeyFlag, else os.Getenv("NOTION_API_KEY"); still "": os.Exit(1)
GetAPIKey ==
    /\ pc = "apikey"
    /\ \E env \in ApiKeys :
          /\ apiKey' = IF apiKeyFlag = "" THEN env ELSE apiKeyFlag
          /\ IF apiKey' = ""
             THEN Exit(1)
             ELSE /\ pc' = "read"
                  /\ UNCHANGED exitCode
    /\ UNCHANGED <<cmdLine, content, rawData, database, converted, pagesData, i,
                   successCount, calls, out>>

\* content, err := os.ReadFile(dataFile); err != nil: os.Exit(1)
ReadFile ==
    /\ pc = "read"
    /\ \/ /\ Exit(1)
          /\ UNCHANGED content
       \/ /\ content' \in Contents
          /\ pc' = "parse"
          /\ UNCHANGED exitCode
    /\ UNCHANGED <<cmdLine, apiKey, rawData, database, converted, pagesData, i,
                   successCount, calls, out>>

\* json.Unmarshal into []RawPageData, then into one RawPageData; both failing:
\* os.Exit(1)
ParseJSON ==
    /\ pc = "parse"
    /\ CASE content.json = "array" ->
               /\ rawData' = content.value
               /\ pc' = "fetch"
               /\ UNCHANGED exitCode
         [] content.json = "object" ->
               /\ rawData' = <<content.value>>
               /\ pc' = "fetch"
               /\ UNCHANGED exitCode
         [] OTHER ->
               /\ Exit(1)
               /\ UNCHANGED rawData
    /\ UNCHANGED <<cmdLine, apiKey, content, database, converted, pagesData, i,
                   successCount, calls, out>>

\* database, err := client.Database.Get(ctx, dbID); err != nil: os.Exit(1)
FetchSchema ==
    /\ pc = "fetch"
    /\ \/ /\ calls' = Append(calls, DatabaseGet(FALSE))
          /\ Exit(1)
          /\ UNCHANGED <<database, i>>
       \/ /\ calls' = Append(calls, DatabaseGet(TRUE))
          /\ database' \in RunSchemas
          /\ pc' = "convert"
          /\ i' = 1
          /\ UNCHANGED exitCode
    /\ UNCHANGED <<cmdLine, apiKey, content, rawData, converted, pagesData,
                   successCount, out>>

\* one iteration of "for i, raw := range rawData"
ConvertRecord ==
    /\ pc = "convert"
    /\ i <= Len(rawData)
    /\ converted' = convertToNotionProperties(rawData[i], database)
    /\ IF converted'.err # "nil"
       THEN /\ out' = Append(out, [msg |-> "Error converting record", record |-> i])
            /\ UNCHANGED pagesData
       ELSE /\ pagesData' = Append(pagesData, converted'.pageData)
            /\ UNCHANGED out
    /\ i' = i + 1
    /\ UNCHANGED <<cmdLine, apiKey, content, rawData, database, successCount,
                   calls, pc, exitCode>>

\* the end of the conversion loop; successCount := 0
ConvertDone ==
    /\ pc = "convert"
    /\ i > Len(rawData)
    /\ pc' = "insert"
    /\ i' = 1
    /\ successCount' = 0
    /\ UNCHANGED <<cmdLine, apiKey, content, rawData, database, converted,
                   pagesData, calls, out, exitCode>>

\* InsertRequests with the schema check outside "if debugMode"
InsertRequestsAlwaysGet(getOk, createOk) ==
    <<DatabaseGet(getOk), PageCreate(pagesData[i].Properties, createOk)>>

\* The requests of one iteration of "for i, pageData := range pagesData": in
\* debug mode a Database.Get, whose result only prints warnings, then the
\* Page.Create.
InsertRequests(getOk, createOk) ==
    (IF debugMode THEN <<DatabaseGet(getOk)>> ELSE << >>)
        \o <<PageCreate(pagesData[i].Properties, createOk)>>

\* InsertRecord that leaves the loop at the first failed Page.Create
InsertRecordStopOnFailure ==
    /\ pc = "insert"
    /\ i <= Len(pagesData)
    /\ \E getOk \in BOOLEAN, createOk \in BOOLEAN :
          /\ calls' = calls \o InsertRequests(getOk, createOk)
          /\ successCount' = IF createOk THEN successCount + 1 ELSE successCount
          /\ i' = IF createOk THEN i + 1 ELSE Len(pagesData) + 1
    /\ UNCHANGED <<cmdLine, apiKey, content, rawData, database, converted,
                   pagesData, out, pc, exitCode>>

\* one iteration of "for i, pageData := range pagesData"
InsertRecord ==
    /\ pc = "insert"
    /\ i <= Len(pagesData)
    /\ \E getOk \in BOOLEAN, createOk \in BOOLEAN :
          /\ calls' = calls \o InsertRequests(getOk, createOk)
          /\ successCount' = IF createOk THEN successCount + 1 ELSE successCount
    /\ i' = i + 1
    /\ UNCHANGED <<cmdLine, apiKey, content, rawData, database, converted,
                   pagesData, out, pc, exitCode>>

\* "Finished inserting. %d/%d records inserted successfully.", then Run and
\* main return
PrintSummary ==
    /\ pc = "insert"
    /\ i > Len(pagesData)
    /\ out' = Append(out, [msg |-> "Finished inserting",
                           successCount |-> successCount,
                           total |-> Len(pagesData)])
    /\ Exit(0)
    /\ UNCHANGED <<cmdLine, apiKey, content, rawData, database, converted,
                   pagesData, i, successCount, calls>>

Next ==
    \/ Execute
    \/ CheckFlags
    \/ CheckUUID
    \/ GetAPIKey
    \/ ReadFile
    \/ ParseJSON
    \/ FetchSchema
    \/ ConvertRecord
    \/ ConvertDone
    \/ InsertRecord
    \/ PrintSummary

Spec == Init /\ [][Next]_vars

(***************************************************************************)
(* The coercion of one record, over every small schema and record: a run   *)
(* from the point where the schema fetch has returned, with a data file    *)
(* that holds one object.                                                  *)
(***************************************************************************)
FieldNames == {"Name", "Age", "Tag"}
FieldValues == {JString("A"), JNumber(25), JBool(TRUE), JNull}

PartialMaps(keys, values) == UNION {[d -> values] : d \in SUBSET keys}

AllSchemas == PartialMaps(FieldNames, ColumnTypes)
AllRecords ==
    {[properties |-> JObject(m)] : m \in PartialMaps(FieldNames, FieldValues)}
        \cup {RecordNoProperties, RecordPropertiesNotObject}

InitCoerce ==
    /\ flagsSet = {"db", "data"}
    /\ dbID = InsertDashes(Hex32)
    /\ dataFile = "data.json"
    /\ apiKeyFlag = "secret"
    /\ debugMode = FALSE
    /\ apiKey = "secret"
    /\ content \in {[json |-> "object", value |-> r] : r \in AllRecords}
    /\ rawData = <<content.value>>
    /\ database \in AllSchemas
    /\ converted = NoResult
    /\ pagesData = << >>
    /\ i = 1
    /\ successCount = 0
    /\ calls = <<DatabaseGet(TRUE)>>
    /\ out = << >>
    /\ pc = "convert"
    /\ exitCode = -1

NextCoerce ==
    \/ ConvertRecord
    \/ ConvertDone
    \/ InsertRecord
    \/ PrintSummary

SpecCoerce == InitCoerce /\ [][NextCoerce]_vars

(***************************************************************************)
(* What the properties read off a state.                                   *)
(***************************************************************************)
\* the record has a nested field map under "properties"
HasFieldMap(raw) == "properties" \in DOMAIN raw /\ raw.properties.kind = "object"

\* the field map of such a record
FieldMap(raw) == raw.properties.fields

\* the JSON type a handled column asks for
MatchingKind(columnType) == IF columnType = TypeNumber THEN "number" ELSE "string"

HandledTypes == {TypeTitle, TypeRichText, TypeNumber}

\* the entry the coercion of a matching value is to produce
ExpectedEntry(columnType, value) ==
    CASE columnType = TypeTitle ->
            [type |-> "title", Title |-> <<[Text |-> [Content |-> value.str]]>>]
      [] columnType = TypeRichText ->
            [type |-> "rich_text", RichText |-> <<[Text |-> [Content |-> value.str]]>>]
      [] columnType = TypeNumber -> [type |-> "number", Number |-> value.num]

\* convertToNotionProperties has returned for rawData[1], the record of a
\* one-record run
CoercedFirst == converted.err # "none" /\ Len(rawData) = 1

\* the fields of rawData[1] that are columns of one of the types in T
FieldsOfTypes(T) ==
    IF HasFieldMap(rawData[1])
    THEN {n \in DOMAIN FieldMap(rawData[1]) :
             n \in DOMAIN database /\ database[n] \in T}
    ELSE {}

MatchingFields ==
    {n \in FieldsOfTypes(HandledTypes) :
        FieldMap(rawData[1])[n].kind = MatchingKind(database[n])}
MismatchedFields == FieldsOfTypes(HandledTypes) \ MatchingFields
UnsupportedFields == FieldsOfTypes(ColumnTypes \ HandledTypes)
UnknownFields ==
    IF HasFieldMap(rawData[1])
    THEN {n \in DOMAIN FieldMap(rawData[1]) : n \notin DOMAIN database}
    ELSE {}

(***************************************************************************)
(* The coercion of a record (checked under SpecCoerce).                    *)
(***************************************************************************)
\* C1: every key of the coerced record the coercion returns is a column of the
\* schema, so a field that is no column never appears in it, and a record that
\* has a field map coerces without error whatever fields it holds.
C1_KeysAreColumns ==
    CoercedFirst =>
        /\ DOMAIN converted.pageData.Properties \subseteq DOMAIN database
        /\ \A k \in 1..Len(pagesData) :
              DOMAIN pagesData[k].Properties \subseteq DOMAIN database
        /\ HasFieldMap(rawData[1]) => converted.err = "nil"

\* a record with a field that is no column and a field that is kept has been
\* coerced without error
C1_Witness ==
    /\ CoercedFirst
    /\ UnknownFields # {}
    /\ converted.err = "nil"
    /\ DOMAIN converted.pageData.Properties # {}

\* C2: every field that is a Title, RichText or Number column and whose value
\* has the matching JSON type has its entry in the coerced record, tagged with
\* the column's type and carrying the input value.
C2_MatchingFieldsKept ==
    CoercedFirst =>
        \A n \in MatchingFields :
            /\ n \in DOMAIN converted.pageData.Properties
            /\ converted.pageData.Properties[n]
                  = ExpectedEntry(database[n], FieldMap(rawData[1])[n])
            /\ Len(pagesData) = 1
            /\ pagesData[1].Properties[n] = converted.pageData.Properties[n]

\* the record {Name: "A", Age: 25} of the spec's scenario has been coerced
\* against a schema with Name a Title and Age a Number column
C2_Witness ==
    /\ CoercedFirst
    /\ rawData[1] = RecordNameAge
    /\ database = [Name |-> TypeTitle, Age |-> TypeNumber]
    /\ MatchingFields = {"Name", "Age"}
    /\ DOMAIN converted.pageData.Properties = {"Name", "Age"}

\* C3: a field whose column is of a type other than Title, RichText and Number
\* has no entry in the coerced record, whatever its value.
C3_UnsupportedDropped ==
    CoercedFirst =>
        \A n \in UnsupportedFields :
            /\ n \notin DOMAIN converted.pageData.Properties
            /\ \A k \in 1..Len(pagesData) : n \notin DOMAIN pagesData[k].Properties

\* a record with a string under a Select column and a number under a Checkbox
\* column has been coerced, and another field of it kept
C3_Witness ==
    /\ CoercedFirst
    /\ \E n \in UnsupportedFields :
          database[n] = TypeSelect /\ FieldMap(rawData[1])[n].kind = "string"
    /\ \E n \in UnsupportedFields :
          database[n] = TypeCheckbox /\ FieldMap(rawData[1])[n].kind = "number"
    /\ DOMAIN converted.pageData.Properties # {}

\* C4 (as stated): a field of a Title, RichText or Number column whose value
\* has another JSON type is dropped, the coercion returns no error, and the
\* droppedFieldCount it returns has counted the field.
C4_DroppedFieldCounted ==
    CoercedFirst =>
        \A n \in MismatchedFields :
            /\ n \notin DOMAIN converted.pageData.Properties
            /\ converted.err = "nil"
            /\ "droppedFieldCount" \in DOMAIN converted
            /\ converted.droppedFieldCount >= Cardinality(MismatchedFields)

\* C4 (amended): a field of a Title, RichText or Number column whose value has
\* another JSON type is dropped from the coerced record and the coercion
\* returns no error; what it returns is the coerced record and the error only.
C4_MismatchedDropped ==
    CoercedFirst =>
        \A n \in MismatchedFields :
            /\ n \notin DOMAIN converted.pageData.Properties
            /\ converted.err = "nil"
            /\ \A k \in 1..Len(pagesData) : n \notin DOMAIN pagesData[k].Properties
            /\ DOMAIN converted = {"pageData", "err"}

\* a record with a number under a Title column and a string under a Number
\* column has been coerced
C4_Witness ==
    /\ CoercedFirst
    /\ \E n \in MismatchedFields : database[n] = TypeTitle
    /\ \E n \in MismatchedFields :
          database[n] = TypeNumber /\ FieldMap(rawData[1])[n].kind = "string"
    /\ converted.err = "nil"

(***************************************************************************)
(* The insert run (checked under Spec).                                    *)
(***************************************************************************)
CallsOf(op) == SelectSeq(calls, LAMBDA c : c.op = op)
GetCount == Len(CallsOf("Database.Get"))
Creates == CallsOf("Page.Create")

\* the schema fetch of line 209 has succeeded
SchemaFetched == Len(calls) > 0 /\ calls[1] = DatabaseGet(TRUE)

\* the number of records the conversion loop has been through
Processed ==
    CASE pc = "convert" -> i - 1
      [] pc = "insert" \/ (pc = "exited" /\ SchemaFetched) -> Len(rawData)
      [] OTHER -> 0

\* the run has printed its summary and ended
Finished == pc = "exited" /\ SchemaFetched

Summaries == {j \in 1..Len(out) : out[j].msg = "Finished inserting"}
ConvertErrors == {j \in 1..Len(out) : out[j].msg = "Error converting record"}

\* the first k records that have a field map / that have none
WithFieldMap(k) == {j \in 1..k : HasFieldMap(rawData[j])}
WithoutFieldMap(k) == {j \in 1..k : ~HasFieldMap(rawData[j])}

\* the coerced field maps of the first k records, without those of the
\* records whose coercion returns an error
RECURSIVE CoercedUpTo(_)
CoercedUpTo(k) ==
    IF k = 0 THEN << >>
    ELSE LET r == convertToNotionProperties(rawData[k], database)
         IN  IF r.err = "nil"
             THEN Append(CoercedUpTo(k - 1), r.pageData.Properties)
             ELSE CoercedUpTo(k - 1)

\* C5: the coercion of a record with no field map under "properties" returns
\* an error and an empty coerced record; the run logs an error for exactly
\* those records, keeps none of them for submission, goes through all the
\* records, and issues no create-record call for them.
C5_MalformedRecordSkipped ==
    /\ (pc = "convert" /\ i > 1 /\ ~HasFieldMap(rawData[i - 1])) =>
          /\ converted.err \notin {"nil", "none"}
          /\ DOMAIN converted.pageData.Properties = {}
    /\ {out[j].record : j \in ConvertErrors} = WithoutFieldMap(Processed)
    /\ Cardinality(ConvertErrors) = Cardinality(WithoutFieldMap(Processed))
    /\ Len(pagesData) = Cardinality(WithFieldMap(Processed))
    /\ Len(Creates) <= Cardinality(WithFieldMap(Processed))
    /\ Finished => Len(Creates) = Cardinality(WithFieldMap(Len(rawData)))

\* a run over a record with no field map followed by a well-formed record has
\* ended, with the first logged and the second created
C5_Witness ==
    /\ Finished
    /\ rawData = <<RecordNoProperties, RecordNameAge>>
    /\ {out[j].record : j \in ConvertErrors} = {1}
    /\ Len(Creates) = 1
    /\ Creates[1].ok

\* C6: once the schema is fetched, the create-record calls issued so far carry
\* the coerced field maps of the records that coerce without error, one call
\* per record and in the order of the input; the loop moves on after a call
\* whether it failed or not, and at the end of the run no record is left out.
C6_OneCreatePerRecordInOrder ==
    SchemaFetched =>
        LET expected == CoercedUpTo(Len(rawData))
        IN  /\ Len(Creates) <= Len(expected)
            /\ \A k \in 1..Len(Creates) : Creates[k].Properties = expected[k]
            /\ pc = "insert" => Len(Creates) = i - 1
            /\ Finished => Len(Creates) = Len(expected)

\* a run over a record that coerces to the empty field map and a record that
\* coerces to two fields has ended, the first create-record call having failed
C6_Witness ==
    /\ Finished
    /\ rawData = <<RecordUnknown, RecordNameAge>>
    /\ Len(Creates) = 2
    /\ DOMAIN Creates[1].Properties = {}
    /\ ~Creates[1].ok
    /\ DOMAIN Creates[2].Properties = {"Name", "Age"}
    /\ Creates[2].ok

\* one of the fatal checks of the run has failed
FlagMissing == ~({"db", "data"} \subseteq flagsSet) \/ dbID = << >> \/ dataFile = ""
FatalCheckFailed ==
    \/ FlagMissing
    \/ ~isValidUUID(dbID)
    \/ apiKey = ""
    \/ content.json \in {"none", "invalid"}
    \/ ~SchemaFetched

\* C7: a run exits with code 1 when a fatal check has failed (a missing --db or
\* --data flag, an identifier that is not UUID-shaped, no credential, an
\* unreadable or unparsable file, a failed schema fetch) and with code 0
\* otherwise.
C7_ExitCode ==
    pc = "exited" => exitCode = (IF FatalCheckFailed THEN 1 ELSE 0)

\* the flag, identifier, credential, file and JSON checks have passed
ChecksPassed ==
    /\ ~FlagMissing
    /\ isValidUUID(dbID)
    /\ apiKey # ""
    /\ content.json \in {"array", "object"}

\* C8: a network call has been issued only when the flag, identifier,
\* credential, file-read and JSON-parse checks have all passed; a run with a
\* non-conforming identifier or a malformed JSON input ends without a network
\* call and without a summary, and with a non-zero exit code when it got as far
\* as the check.
C8_NoCallBeforeChecks ==
    /\ Len(calls) > 0 => ChecksPassed
    /\ (pc = "exited" /\ (~isValidUUID(dbID) \/ content.json = "invalid")) =>
          /\ calls = << >>
          /\ Summaries = {}
          /\ ~FlagMissing => exitCode # 0

\* a run with a valid identifier and credential and a malformed JSON input has
\* ended with exit code 1, no network call made
C8_Witness ==
    /\ pc = "exited"
    /\ content.json = "invalid"
    /\ isValidUUID(dbID)
    /\ calls = << >>
    /\ exitCode = 1

\* C9 (as stated): with or without --debug the schema is fetched at most once
\* in a run, and that fetch precedes the coercion of every record.
C9_FetchedAtMostOnce ==
    /\ GetCount <= 1
    /\ converted.err # "none" => SchemaFetched

\* C9 (amended): the schema is fetched once before the conversion loop, and
\* that fetch precedes the coercion of every record; without --debug it is the
\* only fetch of the run, with --debug one more fetch is issued right before
\* each create-record call.
C9_FetchedOnceBeforeCoercion ==
    /\ GetCount = (IF Len(calls) > 0 THEN 1 ELSE 0)
                      + (IF debugMode THEN Len(Creates) ELSE 0)
    /\ Len(calls) > 0 => calls[1].op = "Database.Get"
    /\ converted.err # "none" => SchemaFetched
    /\ pc = "convert" => Len(calls) = 1
    /\ \A k \in 2..Len(calls) :
          calls[k].op = "Database.Get" =>
              k < Len(calls) /\ calls[k + 1].op = "Page.Create"

\* a run with --debug over two records has ended after three schema fetches
C9_Witness ==
    /\ Finished
    /\ debugMode
    /\ Len(rawData) = 2
    /\ Len(Creates) = 2
    /\ GetCount = 3

\* C10: the summary a run prints is the number of create-record calls that
\* succeeded against the number of records in the parsed input.
C10_SummaryOverInput ==
    \A j \in Summaries :
        /\ out[j].successCount = Len(SelectSeq(Creates, LAMBDA c : c.ok))
        /\ out[j].total = Len(rawData)

(***************************************************************************)
(* The normalisation of the identifier, over a larger set of values of     *)
(* --db: a run from the point where cobra has called Run, with both        *)
(* required flags given.                                                   *)
(***************************************************************************)
\* s with its p-th character replaced by c
ReplaceAt(s, p, c) == [s EXCEPT ![p] = c]

\* two hexadecimal digits, a letter that is none, a dash and a slash
ReplacementChars == {"0", "F", "g", "-", "/"}

\* the 32 digits with one character replaced
Hex32Variants ==
    {ReplaceAt(Hex32, p, c) : p \in 1..Len(Hex32), c \in ReplacementChars}

\* what comes before the trailing segment of a URL-like identifier
UrlPrefixes ==
    {UrlPrefix,
     UrlPrefix \o <<"w", "s", "/">>,
     UrlPrefix \o <<"m", "y", "-", "w", "s", "/">>,
     NotionSo \o <<"/">>,
     <<"h", "t", "t", "p", "s", ":", "/", "/", "e", "x", ".", "i", "o", "/">>}

\* trailing segments: the identifier bare, shortened by one, lengthened by one,
\* dashed, followed by a query, a short word, and a segment of 32 or more
\* characters that names the host again
UrlSegments ==
    {Hex32,
     SubSeq(Hex32, 1, Len(Hex32) - 1),
     Hex32 \o <<"a">>,
     InsertDashes(Hex32),
     Hex32 \o <<"?", "v", "=", "1">>,
     <<"m", "y", "d", "b">>,
     NotionSo \o <<"?", "i", "d", "=">> \o Hex32}

CleanInputs ==
    DbInputs \cup Hex32Variants \cup UrlSegments
        \cup {prefix \o segment : prefix \in UrlPrefixes, segment \in UrlSegments}

InitClean ==
    /\ flagsSet = {"db", "data"}
    /\ dbID \in CleanInputs
    /\ dataFile = "data.json"
    /\ apiKeyFlag = "secret"
    /\ debugMode = FALSE
    /\ apiKey = ""
    /\ content = NoContent
    /\ rawData = << >>
    /\ database = NoDatabase
    /\ converted = NoResult
    /\ pagesData = << >>
    /\ i = 0
    /\ successCount = 0
    /\ calls = << >>
    /\ out = << >>
    /\ pc = "flags"
    /\ exitCode = -1

NextClean ==
    \/ CheckFlags
    \/ CheckUUID

SpecClean == InitClean /\ [][NextClean]_vars

(***************************************************************************)
(* The normalisation of the identifier (checked under SpecClean).          *)
(***************************************************************************)
\* the string is 32 hexadecimal digits, upper or lower case
IsHex32(s) == Len(s) = 32 /\ \A k \in 1..32 : s[k] \in HexDigits

\* the place in the dashed form of the k-th digit of the 32
DashedPlace(k) ==
    k + Cardinality({d \in {8, 12, 16, 20} : d < k})

\* C11: when the identifier is 32 hexadecimal digits, the identifier check
\* leaves in dbID the same 32 digits in the same order with a dash after the
\* 8th, 12th, 16th and 20th, and isValidUUID accepts it: the run goes on to
\* the credential.
C11_DashesInserted ==
    [][(pc = "uuid" /\ IsHex32(dbID)) =>
          /\ Len(dbID') = 36
          /\ \A k \in 1..32 : dbID'[DashedPlace(k)] = dbID[k]
          /\ \A p \in {9, 14, 19, 24} : dbID'[p] = "-"
          /\ isValidUUID(dbID')
          /\ pc' = "apikey"]_vars

\* the identifier check has accepted the dashed form of 32 digits given
\* without dashes, the first an upper-case F
C11_Witness ==
    /\ pc = "apikey"
    /\ Len(dbID) = 36
    /\ dbID[1] = "F"
    /\ \A k \in 2..32 : dbID[DashedPlace(k)] = Hex32[k]
    /\ \A p \in {9, 14, 19, 24} : dbID[p] = "-"

\* the identifier is URL-like (it holds a "/") and its trailing segment, the
\* text after the last "/", is at least 32 characters long
UrlWithLongSegment(s) == Contains(s, <<"/">>) /\ Len(LastPart(s)) >= 32

\* C12: for a URL-like identifier whose trailing segment is at least 32
\* characters long, the identifier check leaves in dbID what cleanDatabaseID
\* returns for that trailing segment alone (and ends as it ends on the segment
\* when the call on the segment does not return).
C12_UrlCleanedAsItsSegment ==
    [][(pc = "uuid" /\ UrlWithLongSegment(dbID)) =>
          LET expected == cleanDatabaseID(LastPart(dbID))
          IN  IF expected = StackOverflow
              THEN pc' = "exited" /\ exitCode' = 2
              ELSE dbID' = expected]_vars

\* the input is one on which the body of cleanDatabaseID reaches its recursive
\* call: no dash, not 32 hexadecimal digits, "notion.so" in it, and a trailing
\* segment of 32 characters or more
ReachesRecursiveCall(s) ==
    /\ ~Contains(s, Dash)
    /\ ~IsHex32(s)
    /\ Contains(s, NotionSo)
    /\ Len(LastPart(s)) >= 32

\* C13: the call of cleanDatabaseID in the identifier check returns for every
\* input (the run does not die of stack overflow), its recursive call being
\* made on a strictly shorter string.
C13_CleanReturns ==
    [][pc = "uuid" =>
          /\ ~(pc' = "exited" /\ exitCode' = 2)
          /\ ReachesRecursiveCall(dbID) => Len(LastPart(dbID)) < Len(dbID)]_vars

====
